---------------------------- MODULE Spec2Model ----------------------------
(***************************************************************************)
(* Model of bitwarden-to-pass.py: the item formatter (BWItem), the two    *)
(* command-line clients (BWCli, PassCli) and the orchestrator (main).     *)
(*                                                                         *)
(* Encoding of the data.                                                   *)
(*  - A JSON object is a TLA+ record; a key the object does not have is    *)
(*    a key outside the record's DOMAIN (obj['k'] then raises KeyError).   *)
(*  - A JSON scalar is Null (Python None) or Some(s).  The display name    *)
(*    and the identifier are sequences of one-character strings, because   *)
(*    passname works on their characters; every other text is a string.    *)
(*  - A JSON list is a sequence.                                           *)
(*  - A Python call either returns or raises: Ok(v) or Raise(e).           *)
(*  - A dict is a sequence of [k, v] entries in insertion order.           *)
(***************************************************************************)
EXTENDS Integers, Sequences, FiniteSets, TLC

VARIABLES
    \* ---- one call of the item formatter (specification SpecItem)
    fnPc,        \* "idle" | "input" | "called"
    fnItem,      \* the JSON object handed to BWItem(...)
    fnName,      \* outcome of passname()
    fnBody,      \* outcome of format()
    \* ---- one or two runs of main (specification Spec)
    pc,          \* position of main
    run,         \* 1 or 2: which run of main this is
    attempts,    \* unlock commands issued so far in this run
    session,     \* token returned by unlock ("" while none)
    items,       \* what `bw list items` returned
    bw_items,    \* the parsed source list
    dir,         \* the destination directory: file -> content
    dir0,        \* the directory as it was when this run started
    dirRun1,     \* the directory as the first run left it
    existing_pass_entries,  \* the pre-run snapshot of entry names
    idx,         \* index of the item the loop is at (1-based)
    name,        \* main's local: passname of the current item
    content,     \* main's local: format of the current item
    ignored_pass_entries,   \* the names printed in the warning block
    warned,      \* TRUE once the warning header has been printed
    log          \* the external commands and file operations, in order

fnVars   == <<fnPc, fnItem, fnName, fnBody>>
mainVars == <<pc, run, attempts, session, items, bw_items, dir, dir0, dirRun1,
              existing_pass_entries, idx, name, content,
              ignored_pass_entries, warned, log>>
vars     == <<fnVars, mainVars>>

(***************************************************************************)
(* Bounds of the model.                                                    *)
(***************************************************************************)
MaxNameLen        == 3
MaxIdLen          == 5
MaxUris           == 3
MaxFields         == 2
MaxAttachments    == 1
MaxItems          == 3
MaxUnlockAttempts == 1

(***************************************************************************)
(* Values.                                                                 *)
(***************************************************************************)
Null        == [null |-> TRUE]
Some(s)     == [some |-> s]
Ok(v)       == [ok |-> TRUE, val |-> v]
Raise(e)    == [ok |-> FALSE, err |-> e]
NotCalled   == Raise("not called")
UnknownType == "Unknown item type"

RECURSIVE StrOf(_)
\* the Python string made of the characters cs
StrOf(cs) == IF cs = <<>> THEN "" ELSE Head(cs) \o StrOf(Tail(cs))

\* "{}".format(v): None prints as "None"
Fmt(v) == IF v = Null THEN "None" ELSE v.some

SeqsUpTo(S, n) == UNION { [1..k -> S] : k \in 0..n }

(***************************************************************************)
(* Ordered dict.                                                           *)
(***************************************************************************)
DictHas(d, k) == \E i \in 1..Len(d) : d[i].k = k

\* d[k] = v: an existing key keeps its position, a new key goes last
DictSet(d, k, v) ==
    IF DictHas(d, k)
    THEN [i \in 1..Len(d) |-> IF d[i].k = k THEN [k |-> k, v |-> v] ELSE d[i]]
    ELSE Append(d, [k |-> k, v |-> v])

RECURSIVE DictUpdate(_, _)
DictUpdate(d, other) ==
    IF other = <<>> THEN d
    ELSE DictUpdate(DictSet(d, Head(other).k, Head(other).v), Tail(other))

(***************************************************************************)
(* BWItem.passname and BWItem.item_type.                                   *)
(***************************************************************************)
Separators == {"-", "_", "|"}

RECURSIVE split_head(_)
\* s.split('-')[0]: the characters before the first hyphen
split_head(s) ==
    IF s = <<>> \/ Head(s) = "-" THEN <<>>
    ELSE <<Head(s)>> \o split_head(Tail(s))

\* s[0:4]
Slice4(s) == SubSeq(s, 1, IF Len(s) < 4 THEN Len(s) ELSE 4)

\* mutant: the character class lacks the underscore
sub_separators_no_underscore(s) ==
    [i \in 1..Len(s) |-> IF s[i] \in {"-", "|"} THEN " " ELSE s[i]]

\* re.sub('[-_|]', ' ', s)
sub_separators(s) ==
    [i \in 1..Len(s) |-> IF s[i] \in Separators THEN " " ELSE s[i]]

RECURSIVE sub_spaces(_)
\* re.sub(' +', '-', s): every maximal run of spaces becomes one hyphen
sub_spaces(s) ==
    IF s = <<>> THEN <<>>
    ELSE IF Head(s) = " "
         THEN IF Len(s) > 1 /\ s[2] = " "
              THEN sub_spaces(Tail(s))
              ELSE <<"-">> \o sub_spaces(Tail(s))
         ELSE <<Head(s)>> \o sub_spaces(Tail(s))

LowerChar(c) == IF c = "A" THEN "a" ELSE IF c = "B" THEN "b" ELSE c
\* s.lower()
lower(s) == [i \in 1..Len(s) |-> LowerChar(s[i])]

\* mutant: an unknown type code is taken for a note
item_type_default_note(item) ==
    IF "type" \notin DOMAIN item THEN Raise("KeyError")
    ELSE CASE item.type = 1 -> Ok(<<"l", "o", "g", "i", "n">>)
           [] item.type = 3 -> Ok(<<"c", "a", "r", "d">>)
           [] item.type = 4 -> Ok(<<"i", "d", "e", "n", "t", "i", "t", "y">>)
           [] OTHER         -> Ok(<<"n", "o", "t", "e">>)

item_type(item) ==
    IF "type" \notin DOMAIN item THEN Raise("KeyError")
    ELSE CASE item.type = 1 -> Ok(<<"l", "o", "g", "i", "n">>)
           [] item.type = 2 -> Ok(<<"n", "o", "t", "e">>)
           [] item.type = 3 -> Ok(<<"c", "a", "r", "d">>)
           [] item.type = 4 -> Ok(<<"i", "d", "e", "n", "t", "i", "t", "y">>)
           [] OTHER         -> Raise(UnknownType)

passname(item) ==
    IF "id" \notin DOMAIN item THEN Raise("KeyError")
    ELSE IF item.id = Null THEN Raise("AttributeError")
    ELSE IF "name" \notin DOMAIN item THEN Raise("KeyError")
    ELSE IF item.name = Null THEN Raise("TypeError")
    ELSE IF ~item_type(item).ok THEN item_type(item)
    ELSE LET id_head == split_head(item.id.some)
             n1 == sub_separators(item.name.some)
             n2 == sub_spaces(n1)
         IN  Ok(lower(n2) \o <<"-">> \o item_type(item).val \o <<"-">>
                \o Slice4(id_head))

(***************************************************************************)
(* BWItem.format_card, format_identity, format_login and format.           *)
(***************************************************************************)
Entry(k, v) == [k |-> k, v |-> v]

CardKeys == {"cardholderName", "brand", "number", "expMonth", "expYear", "code"}

format_card(card) ==
    IF ~(CardKeys \subseteq DOMAIN card) THEN Raise("KeyError")
    ELSE Ok(<< Entry("Card Holder Name", card.cardholderName),
               Entry("Card Brand", card.brand),
               Entry("Card Number", card.number),
               Entry("Card Expire MM/YYYY",
                     Some(Fmt(card.expMonth) \o "/" \o Fmt(card.expYear))),
               Entry("Card Security Code", card.code) >>)

\* label and key of every identity line, in the order of the assignments
IdentityFields ==
    << <<"ID Title", "title">>,
       <<"ID FirstName", "firstName">>,
       <<"ID MiddleName", "middleName">>,
       <<"ID LastName", "lastName">>,
       <<"ID Address1", "address1">>,
       <<"ID Address2", "address2">>,
       <<"ID Address3", "address3">>,
       <<"ID City", "city">>,
       <<"ID State", "state">>,
       <<"ID PostalCode", "postalCode">>,
       <<"ID Country", "country">>,
       <<"ID Company", "company">>,
       <<"ID Email", "email">>,
       <<"ID Phone", "phone">>,
       <<"ID SSN", "ssn">>,
       <<"ID Username", "username">>,
       <<"ID Passport Number", "passportNumber">>,
       <<"ID License Number", "licenseNumber">> >>

IdentityKeys == { IdentityFields[i][2] : i \in 1..Len(IdentityFields) }

format_identity(identity) ==
    IF ~(IdentityKeys \subseteq DOMAIN identity) THEN Raise("KeyError")
    ELSE Ok([i \in 1..Len(IdentityFields) |->
                Entry(IdentityFields[i][1], identity[IdentityFields[i][2]])])

\* login.get('uris', [])
get_uris(login) == IF "uris" \in DOMAIN login THEN login.uris ELSE <<>>

\* mutant: the single-URI case is numbered like the others
format_login_always_numbered(login) ==
    IF ~({"username", "password", "totp"} \subseteq DOMAIN login)
    THEN Raise("KeyError")
    ELSE LET uris == get_uris(login)
             d0 == << Entry("Username", login.username),
                      Entry("Password", login.password),
                      Entry("TOTP", login.totp) >>
         IN  IF \E i \in 1..Len(uris) : "uri" \notin DOMAIN uris[i]
             THEN Raise("KeyError")
             ELSE Ok(DictUpdate(d0, [i \in 1..Len(uris) |->
                         Entry("URL " \o ToString(i), uris[i].uri)]))

format_login(login) ==
    IF ~({"username", "password", "totp"} \subseteq DOMAIN login)
    THEN Raise("KeyError")
    ELSE LET uris == get_uris(login)
             d0 == << Entry("Username", login.username),
                      Entry("Password", login.password),
                      Entry("TOTP", login.totp) >>
         IN  IF \E i \in 1..Len(uris) : "uri" \notin DOMAIN uris[i]
             THEN Raise("KeyError")
             ELSE IF Len(uris) = 1
             THEN Ok(DictSet(d0, "URL", uris[1].uri))
             ELSE Ok(DictUpdate(d0, [i \in 1..Len(uris) |->
                         Entry("URL " \o ToString(i), uris[i].uri)]))

\* the payload key each type's formatter reads; a note reads none
PayloadKey(label) ==
    CASE label = <<"l", "o", "g", "i", "n">> -> "login"
      [] label = <<"c", "a", "r", "d">> -> "card"
      [] label = <<"i", "d", "e", "n", "t", "i", "t", "y">> -> "identity"
      [] OTHER -> ""

\* the type specific entries added by d.update(...)
type_fields(item, label) ==
    IF PayloadKey(label) = "" THEN Ok(<<>>)
    ELSE IF PayloadKey(label) \notin DOMAIN item THEN Raise("KeyError")
    ELSE CASE PayloadKey(label) = "login" -> format_login(item.login)
           [] PayloadKey(label) = "card" -> format_card(item.card)
           [] OTHER -> format_identity(item.identity)

\* item.get('fields', []) and item.get('attachments', [])
get_fields(item) == IF "fields" \in DOMAIN item THEN item.fields ELSE <<>>
get_attachments(item) ==
    IF "attachments" \in DOMAIN item THEN item.attachments ELSE <<>>

custom_fields(item) ==
    LET fs == get_fields(item)
    IN  IF \E i \in 1..Len(fs) : ~({"name", "value"} \subseteq DOMAIN fs[i])
        THEN Raise("KeyError")
        ELSE Ok([i \in 1..Len(fs) |->
                   Entry("[Custom Field " \o ToString(i) \o "] "
                            \o Fmt(fs[i].name), fs[i].value)])

RECURSIVE attachment_entries(_, _)
\* the three entries of each attachment, numbered from `index`
attachment_entries(as, index) ==
    IF as = <<>> THEN <<>>
    ELSE << Entry("Attachment " \o ToString(index) \o " File Name",
                  Head(as).fileName),
            Entry("Attachment " \o ToString(index) \o " File Size",
                  Head(as).sizeName),
            Entry("Attachment " \o ToString(index) \o " URL", Head(as).url) >>
         \o attachment_entries(Tail(as), index + 1)

attachment_fields(item) ==
    LET as == get_attachments(item)
    IN  IF \E i \in 1..Len(as) :
               ~({"fileName", "sizeName", "url"} \subseteq DOMAIN as[i])
        THEN Raise("KeyError")
        ELSE Ok(attachment_entries(as, 0))

\* d['Name'] = item['name']: the value as the text format() prints
name_value(item) ==
    IF item.name = Null THEN Null ELSE Some(StrOf(item.name.some))

\* the dict d of format(), as it stands when the lines are built
format_dict(item) ==
    IF ~item_type(item).ok THEN item_type(item)
    ELSE IF "name" \notin DOMAIN item THEN Raise("KeyError")
    ELSE LET tf == type_fields(item, item_type(item).val)
             cf == custom_fields(item)
             af == attachment_fields(item)
         IN  IF ~tf.ok THEN tf
             ELSE IF ~cf.ok THEN cf
             ELSE IF ~af.ok THEN af
             ELSE IF "notes" \notin DOMAIN item THEN Raise("KeyError")
             ELSE Ok(DictSet(
                        DictUpdate(
                          DictUpdate(
                            DictUpdate(<<Entry("Name", name_value(item))>>,
                                       tf.val),
                            cf.val),
                          af.val),
                        "Notes", item.notes))

\* the entries that become lines: `if not v is None`
kept_entries(d) == SelectSeq(d, LAMBDA e : e.v # Null)

\* "{}: {}".format(k, v) for every kept entry
format_lines(d) ==
    LET kept == kept_entries(d)
    IN  [i \in 1..Len(kept) |-> [label |-> kept[i].k, text |-> Fmt(kept[i].v)]]

Render(line) == line.label \o ": " \o line.text

RECURSIVE join(_)
\* '\n'.join(lines)
join(lines) ==
    IF lines = <<>> THEN ""
    ELSE IF Len(lines) = 1 THEN Render(Head(lines))
    ELSE Render(Head(lines)) \o "\n" \o join(Tail(lines))

format(item) ==
    IF ~format_dict(item).ok THEN format_dict(item)
    ELSE Ok(join(format_lines(format_dict(item).val)) \o "\n")

\* the lines of the body format() returns, << >> when it raises
body_lines(item) ==
    IF format_dict(item).ok THEN format_lines(format_dict(item).val) ELSE <<>>

(***************************************************************************)
(* Source items the formatter is applied to.                               *)
(***************************************************************************)
NameChars == {"A", "b", " ", "-", "_", "|"}
IdChars   == {"a", "1", "-"}
Names     == SeqsUpTo(NameChars, MaxNameLen)
Ids       == SeqsUpTo(IdChars, MaxIdLen)
DefName   == <<"A", "b">>
DefId     == <<"a", "1", "a", "1", "a">>

Opt(s) == {Null, Some(s)}

\* the keys every item of the source list carries
Base(id, nm, t, notes) == [id |-> id, name |-> nm, type |-> t, notes |-> notes]
Plain(t) == Base(Some(DefId), Some(DefName), t, Null)

\* f without the key k
Without(f, k) == [x \in DOMAIN f \ {k} |-> f[x]]

UriObjs  == { [uri |-> u] : u \in {Null, Some("h1"), Some("h2")} }
UriLists == SeqsUpTo(UriObjs, MaxUris)

FullLogin == [username |-> Some("u"), password |-> Some("p"),
              totp |-> Some("t"), uris |-> <<>>]
LoginPayloads ==
    { [username |-> u, password |-> p, totp |-> t, uris |-> <<>>] :
        u \in Opt("u"), p \in Opt("p"), t \in Opt("t") }
    \cup { [FullLogin EXCEPT !.uris = us] : us \in UriLists }
    \cup { Without(FullLogin, "uris") }

CardPayloads ==
    { [cardholderName |-> h, brand |-> b, number |-> n,
       expMonth |-> m, expYear |-> y, code |-> c] :
        h \in Opt("holder"), b \in Opt("visa"), n \in Opt("4111"),
        m \in Opt("12"), y \in Opt("2030"), c \in Opt("123") }

\* identities whose null keys are: none, all, exactly one, all but one
IdentityNullSets ==
    {{}, IdentityKeys} \cup { {k} : k \in IdentityKeys }
    \cup { IdentityKeys \ {k} : k \in IdentityKeys }
IdentityPayloads ==
    { [k \in IdentityKeys |-> IF k \in ns THEN Null ELSE Some(k)] :
        ns \in IdentityNullSets }

FieldObjs == { [name |-> Some("f"), value |-> v] : v \in Opt("x") }
AttachmentObjs ==
    { [fileName |-> f, sizeName |-> z, url |-> u] :
        f \in Opt("a.txt"), z \in Opt("1 KB"), u \in Opt("http://a") }

NameInputs == { Base(Some(DefId), Some(n), t, Null) : n \in Names, t \in {2} }
IdInputs   == { Base(Some(i), Some(DefName), t, Some("n")) : i \in Ids, t \in {1} }
TypeInputs ==
    { [login |-> FullLogin, card |-> CHOOSE c \in CardPayloads : TRUE,
       identity |-> CHOOSE i \in IdentityPayloads : TRUE] @@ Plain(t) :
        t \in 0..6 }
LoginInputs ==
    { [login |-> lp] @@ Base(Some(DefId), Some(DefName), 1, n) :
        lp \in LoginPayloads, n \in Opt("n") }
CardInputs ==
    { [card |-> cp] @@ Base(Some(DefId), Some(DefName), 3, n) :
        cp \in CardPayloads, n \in Opt("n") }
IdentityInputs ==
    { [identity |-> ip] @@ Base(Some(DefId), Some(DefName), 4, n) :
        ip \in IdentityPayloads, n \in Opt("n") }
NoteInputs ==
    { [fields |-> fs, attachments |-> as] @@ Base(Some(DefId), nm, 2, n) :
        fs \in SeqsUpTo(FieldObjs, MaxFields),
        as \in SeqsUpTo(AttachmentObjs, MaxAttachments),
        nm \in Opt(DefName), n \in Opt("n") }
\* records the formatter cannot handle: a key it reads is missing
BrokenInputs ==
    { Without(Plain(2), k) : k \in {"id", "name", "type", "notes"} }
    \cup { Base(Null, Some(DefName), 2, Null), Plain(1), Plain(3), Plain(4) }
    \cup { [login |-> Without(FullLogin, k)] @@ Plain(1) :
             k \in {"username", "password", "totp"} }
    \cup { [login |-> [FullLogin EXCEPT !.uris = <<[match |-> Null]>>]]
             @@ Plain(1) }
    \cup { [card |-> Without(cp, "code")] @@ Plain(3) : cp \in CardPayloads }
    \cup { [identity |-> Without(ip, "ssn")] @@ Plain(4) :
             ip \in IdentityPayloads }
    \cup { [fields |-> <<[name |-> Some("f")]>>] @@ Plain(2),
           [attachments |-> <<[fileName |-> Some("a.txt")]>>] @@ Plain(2) }

ItemInputs ==
    NameInputs \cup IdInputs \cup TypeInputs \cup LoginInputs \cup CardInputs
    \cup IdentityInputs \cup NoteInputs \cup BrokenInputs

(***************************************************************************)
(* SpecItem: BWItem(obj).passname() and BWItem(obj).format() on one item.  *)
(***************************************************************************)
NoItem == [type |-> 0]

MainIdle ==
    /\ pc = "idle" /\ run = 0 /\ attempts = 0 /\ session = ""
    /\ items = <<>> /\ bw_items = <<>> /\ dir = <<>> /\ dir0 = <<>> /\ dirRun1 = <<>>
    /\ existing_pass_entries = {} /\ idx = 0
    /\ name = NotCalled /\ content = NotCalled
    /\ ignored_pass_entries = {} /\ warned = FALSE /\ log = <<>>

InitItem ==
    /\ fnPc = "input"
    /\ fnItem \in ItemInputs
    /\ fnName = NotCalled
    /\ fnBody = NotCalled
    /\ MainIdle

CallPassname ==
    /\ fnPc = "input"
    /\ fnName = NotCalled
    /\ fnName' = passname(fnItem)
    /\ UNCHANGED <<fnPc, fnItem, fnBody, mainVars>>

CallFormat ==
    /\ fnPc = "input"
    /\ fnBody = NotCalled
    /\ fnBody' = format(fnItem)
    /\ UNCHANGED <<fnPc, fnItem, fnName, mainVars>>

NextItem == CallPassname \/ CallFormat

SpecItem == InitItem /\ [][NextItem]_vars

(***************************************************************************)
(* BWCli and PassCli.  The directory maps a file, [stem, ext], to its      *)
(* content; `pass insert -m` stores the text it reads on standard input.   *)
(***************************************************************************)
Tokens == {"t1", "t2"}

\* what one `bw unlock --raw` may print: nothing, or a session token
UnlockOutputs == {""} \cup Tokens

get_file_path(n) == [stem |-> n, ext |-> ".gpg"]

\* mutant: the existence check looks for the bare name, without ".gpg"
pass_exists_no_suffix(d, n) == [stem |-> n, ext |-> ""] \in DOMAIN d

pass_exists(d, n) == get_file_path(n) \in DOMAIN d

remove_force(d, n) ==
    [f \in DOMAIN d \ {get_file_path(n)} |-> d[f]]

\* mutant: the body is not piped to the command, which stores an empty text
insert_no_input(d, n, c) ==
    [f \in DOMAIN d \cup {get_file_path(n)} |->
        IF f = get_file_path(n) THEN "" ELSE d[f]]

insert(d, n, c) ==
    [f \in DOMAIN d \cup {get_file_path(n)} |->
        IF f = get_file_path(n) THEN c ELSE d[f]]

\* mutant: every file of the directory is taken for an entry
list_pass_names_all(d) == { f.stem : f \in DOMAIN d }

list_pass_names(d) == { f.stem : f \in { g \in DOMAIN d : g.ext = ".gpg" } }

(***************************************************************************)
(* The source lists and the destination directories main is run on.        *)
(***************************************************************************)
ItemA  == [login |-> [FullLogin EXCEPT !.uris = <<[uri |-> Some("h1")]>>]]
             @@ Plain(1)
\* a second login with the name and type of ItemA and an identifier that
\* starts with the same 4 characters
ItemA2 == [login |-> [FullLogin EXCEPT !.password = Null]]
             @@ Base(Some(<<"a", "1", "a", "1", "1">>), Some(DefName), 1, Null)
ItemN  == Base(Some(<<"1", "a", "-", "a">>), Some(<<"b", "_", "A">>), 2,
               Some("n"))
\* a record of a type main does not know
ItemU  == Plain(5)
\* a login whose payload lacks a key format_login reads; its canonical name
\* is that of ItemA
ItemK  == [login |-> Without(FullLogin, "password")]
             @@ Base(Some(<<"a", "1", "a", "1", "-", "1">>), Some(DefName), 1,
                     Null)

Catalogue   == {ItemA, ItemA2, ItemN, ItemU, ItemK}
SourceLists == SeqsUpTo(Catalogue, MaxItems)

OrphanName == <<"o", "l", "d">>
KeyFile    == [stem |-> <<>>, ext |-> ".gpg-id"]
\* the entries a directory may hold before the first run
OldNames   == {passname(ItemA).val, OrphanName}
InitialDirs ==
    { [f \in {KeyFile} \cup { get_file_path(n) : n \in ns } |->
         IF f = KeyFile THEN "key\n" ELSE "old: " \o StrOf(f.stem) \o "\n"] :
      ns \in SUBSET OldNames }

(***************************************************************************)
(* main, one step per external command or file operation.                  *)
(***************************************************************************)
Cmd(c, arg) == [cmd |-> c, arg |-> arg]

Init ==
    /\ fnPc = "idle" /\ fnItem = NoItem
    /\ fnName = NotCalled /\ fnBody = NotCalled
    /\ pc = "unlock" /\ run = 1 /\ attempts = 0 /\ session = ""
    /\ items = <<>> /\ bw_items = <<>>
    /\ dir \in InitialDirs /\ dir0 = dir /\ dirRun1 = <<>>
    /\ existing_pass_entries = {} /\ idx = 0
    /\ name = NotCalled /\ content = NotCalled
    /\ ignored_pass_entries = {} /\ warned = FALSE /\ log = <<>>

\* mutant: unlock returns whatever the first command printed
Unlock_once ==
    /\ pc = "unlock"
    /\ \E out \in UnlockOutputs :
         /\ attempts' = attempts + 1
         /\ log' = Append(log, Cmd("unlock", out))
         /\ session' = out /\ pc' = "sync"
    /\ UNCHANGED <<fnVars, run, items, bw_items, dir, dir0, dirRun1,
                   existing_pass_entries, idx, name, content,
                   ignored_pass_entries, warned>>

\* BWCli.unlock: one turn of the `while True` loop
Unlock ==
    /\ pc = "unlock"
    /\ \E out \in UnlockOutputs :
         /\ attempts < MaxUnlockAttempts \/ out # ""
         /\ attempts' = attempts + 1
         /\ log' = Append(log, Cmd("unlock", out))
         /\ IF out # ""
            THEN session' = out /\ pc' = "sync"
            ELSE UNCHANGED <<session, pc>>
    /\ UNCHANGED <<fnVars, run, items, bw_items, dir, dir0, dirRun1,
                   existing_pass_entries, idx, name, content,
                   ignored_pass_entries, warned>>

\* bwcli.sync(session)
Sync ==
    /\ pc = "sync"
    /\ log' = Append(log, Cmd("sync", session))
    /\ pc' = "list"
    /\ UNCHANGED <<fnVars, run, attempts, session, items, bw_items, dir, dir0,
                   dirRun1, existing_pass_entries, idx, name, content,
                   ignored_pass_entries, warned>>

\* items = bwcli.list_items(session); the second run finds the same list
ListItems ==
    /\ pc = "list"
    /\ log' = Append(log, Cmd("list", session))
    /\ IF run = 1
       THEN \E l \in SourceLists : items' = l
       ELSE items' = items
    /\ pc' = "snapshot"
    /\ UNCHANGED <<fnVars, run, attempts, session, bw_items, dir, dir0,
                   dirRun1, existing_pass_entries, idx, name, content,
                   ignored_pass_entries, warned>>

\* existing_pass_entries = passcli.list_pass_names(); bw_items = [...]
Snapshot ==
    /\ pc = "snapshot"
    /\ existing_pass_entries' = list_pass_names(dir)
    /\ bw_items' = items
    /\ log' = Append(log, Cmd("snapshot", <<>>))
    /\ idx' = 1
    /\ pc' = IF items = <<>> THEN "report" ELSE "item"
    /\ UNCHANGED <<fnVars, run, attempts, session, items, dir, dir0, dirRun1,
                   name, content, ignored_pass_entries, warned>>

\* mutant: the body is computed after the existing entry has been removed
FormatItem_after_remove ==
    /\ pc = "item"
    /\ name' = passname(bw_items[idx])
    /\ IF ~passname(bw_items[idx]).ok
       THEN pc' = "failed" /\ UNCHANGED <<content, dir>>
       ELSE /\ content' = format(bw_items[idx])
            /\ IF format(bw_items[idx]).ok
               THEN pc' = "exists" /\ UNCHANGED dir
               ELSE /\ pc' = "failed"
                    /\ dir' = remove_force(dir, passname(bw_items[idx]).val)
    /\ UNCHANGED <<fnVars, run, attempts, session, items, bw_items, dir0,
                   dirRun1, existing_pass_entries, idx,
                   ignored_pass_entries, warned, log>>

\* name = bw_item.passname(); content = bw_item.format()
FormatItem ==
    /\ pc = "item"
    /\ name' = passname(bw_items[idx])
    /\ IF ~passname(bw_items[idx]).ok
       THEN pc' = "failed" /\ UNCHANGED content
       ELSE /\ content' = format(bw_items[idx])
            /\ pc' = IF format(bw_items[idx]).ok THEN "exists" ELSE "failed"
    /\ UNCHANGED <<fnVars, run, attempts, session, items, bw_items, dir, dir0,
                   dirRun1, existing_pass_entries, idx,
                   ignored_pass_entries, warned, log>>

\* if (passcli.pass_exists(name)):
CheckExists ==
    /\ pc = "exists"
    /\ log' = Append(log, Cmd("exists", name.val))
    /\ pc' = IF pass_exists(dir, name.val) THEN "remove" ELSE "insert"
    /\ UNCHANGED <<fnVars, run, attempts, session, items, bw_items, dir, dir0,
                   dirRun1, existing_pass_entries, idx, name, content,
                   ignored_pass_entries, warned>>

\* passcli.remove_force(name)
Remove ==
    /\ pc = "remove"
    /\ dir' = remove_force(dir, name.val)
    /\ log' = Append(log, Cmd("remove", name.val))
    /\ pc' = "insert"
    /\ UNCHANGED <<fnVars, run, attempts, session, items, bw_items, dir0,
                   dirRun1, existing_pass_entries, idx, name, content,
                   ignored_pass_entries, warned>>

\* passcli.insert(name, content), then on to the next item
Insert ==
    /\ pc = "insert"
    /\ dir' = insert(dir, name.val, content.val)
    /\ log' = Append(log, Cmd("insert", name.val))
    /\ idx' = idx + 1
    /\ pc' = IF idx = Len(bw_items) THEN "report" ELSE "item"
    /\ UNCHANGED <<fnVars, run, attempts, session, items, bw_items, dir0,
                   dirRun1, existing_pass_entries, name, content,
                   ignored_pass_entries, warned>>

\* synced_pass_entries of main
synced_pass_entries(its) == { passname(its[i]).val : i \in 1..Len(its) }

\* mutant: the diff keeps every name of the snapshot
ignored_entries_all(existing, its) == existing

\* ignored_pass_entries of main
ignored_entries(existing, its) ==
    { e \in existing : e \notin synced_pass_entries(its) }

\* the diff of the two name lists and the warning block
Report ==
    /\ pc = "report"
    /\ ignored_pass_entries' = ignored_entries(existing_pass_entries, bw_items)
    /\ warned' = (ignored_entries(existing_pass_entries, bw_items) # {})
    /\ pc' = "done"
    /\ UNCHANGED <<fnVars, run, attempts, session, items, bw_items, dir, dir0,
                   dirRun1, existing_pass_entries, idx, name, content, log>>

\* the program is started again on the directory the first run left
Rerun ==
    /\ pc \in {"done", "failed"} /\ run = 1
    /\ run' = 2
    /\ dirRun1' = dir /\ dir0' = dir
    /\ pc' = "unlock" /\ attempts' = 0 /\ session' = ""
    /\ bw_items' = <<>> /\ existing_pass_entries' = {} /\ idx' = 0
    /\ name' = NotCalled /\ content' = NotCalled
    /\ ignored_pass_entries' = {} /\ warned' = FALSE /\ log' = <<>>
    /\ UNCHANGED <<fnVars, items, dir>>

Next ==
    \/ Unlock \/ Sync \/ ListItems \/ Snapshot \/ FormatItem
    \/ CheckExists \/ Remove \/ Insert \/ Report \/ Rerun

Spec == Init /\ [][Next]_vars

\* both machines side by side: a call of the formatter, or a run of main
InitAll == Init \/ InitItem
NextAll == Next \/ NextItem
SpecAll == InitAll /\ [][NextAll]_vars

(***************************************************************************)
(* Notions the properties are stated with.                                 *)
(***************************************************************************)
KnownTypes == 1..4

\* the item has the three things a canonical name is made of
Nameable(item) ==
    /\ {"id", "name", "type"} \subseteq DOMAIN item
    /\ item.id # Null /\ item.name # Null

IsBlank(c) == c = " " \/ c \in Separators

\* the display name as the data model words it: separators count as
\* spaces, a run of spaces is one hyphen, letters are lower case
CanonicalStem(s) ==
    LET keep == { i \in 1..Len(s) :
                    ~IsBlank(s[i]) \/ i = Len(s) \/ ~IsBlank(s[i + 1]) }
        nth(n) == CHOOSE i \in keep : Cardinality({ j \in keep : j <= i }) = n
    IN  [n \in 1..Cardinality(keep) |->
            IF IsBlank(s[nth(n)]) THEN "-" ELSE LowerChar(s[nth(n)])]

TypeLabel(t) ==
    CASE t = 1 -> <<"l", "o", "g", "i", "n">>
      [] t = 2 -> <<"n", "o", "t", "e">>
      [] t = 3 -> <<"c", "a", "r", "d">>
      [] t = 4 -> <<"i", "d", "e", "n", "t", "i", "t", "y">>

\* the first 4 characters of the identifier (all of it when shorter)
First4(id) == SubSeq(id, 1, IF Len(id) < 4 THEN Len(id) ELSE 4)

\* the first 4 characters of the identifier's first hyphen-delimited segment
First4OfSegment(id) ==
    LET n == CHOOSE k \in 0..Len(id) :
                 /\ k <= 4
                 /\ \A j \in 1..k : id[j] # "-"
                 /\ k = Len(id) \/ k = 4 \/ id[k + 1] = "-"
    IN  SubSeq(id, 1, n)

\* items that agree with `item` on identifier, name and type code only
Variants(item) ==
    { [login |-> FullLogin] @@ item,
      [notes |-> Some("other")] @@ Without(item, "notes"),
      Without(item, "notes"),
      [fields |-> <<[name |-> Some("f"), value |-> Some("x")]>>,
       card |-> CHOOSE c \in CardPayloads : TRUE] @@ item }

\* passname has been called on an item of a known type that can be named
NamedKnown ==
    /\ fnPc = "input" /\ fnName # NotCalled
    /\ Nameable(fnItem) /\ fnItem.type \in KnownTypes

\* C7 (as claimed): the canonical name ends in the first 4 characters of the
\* identifier, whatever the identifier is.
C7_NameEndsInFirst4OfIdentifier ==
    NamedKnown =>
        /\ fnName.ok
        /\ fnName.val = CanonicalStem(fnItem.name.some) \o <<"-">>
                          \o TypeLabel(fnItem.type) \o <<"-">>
                          \o First4(fnItem.id.some)

\* C7 (amended): for an item of a known type, passname returns the
\* lower-cased display name with every separator turned into a space and
\* every run of spaces replaced by one hyphen, then "-<type label>-", then the
\* first 4 characters of the part of the identifier before its first hyphen;
\* items that agree on identifier, name and type code get the same name.
C7_CanonicalName ==
    NamedKnown =>
        /\ fnName.ok
        /\ fnName.val = CanonicalStem(fnItem.name.some) \o <<"-">>
                          \o TypeLabel(fnItem.type) \o <<"-">>
                          \o First4OfSegment(fnItem.id.some)
        /\ \A v \in Variants(fnItem) : passname(v) = fnName

\* C7 witness: an item whose identifier has a hyphen after two characters
\* has been named; the name ends in those two characters.
C7_Witness ==
    /\ NamedKnown
    /\ fnItem.id.some = <<"a", "1", "-", "a", "1">>
    /\ fnItem.name.some = <<"A", "b">>
    /\ fnName.val = <<"a", "b", "-", "l", "o", "g", "i", "n", "-", "a", "1">>

\* the elements of a set of numbers, in increasing order
Ascending(S) ==
    LET nth(n) == CHOOSE i \in S : Cardinality({ j \in S : j <= i }) = n
    IN  [n \in 1..Cardinality(S) |-> nth(n)]

UrlLabel(i) == "URL " \o ToString(i)
UrlLabels   == {"URL"} \cup { UrlLabel(i) : i \in 0..(MaxUris + 1) }
UrlLines(lines) == SelectSeq(lines, LAMBDA l : l.label \in UrlLabels)
Labels(lines)   == { lines[i].label : i \in 1..Len(lines) }

\* format has returned the body of a login item
FormattedLogin ==
    /\ fnPc = "input" /\ fnBody.ok
    /\ fnItem.type = 1

\* C5 (as claimed): one URI gives one line URL carrying it, N > 1 URIs give
\* the lines URL 1 .. URL N in input order, no URI gives no URL line.
C5_EveryUriHasItsLine ==
    FormattedLogin =>
        LET uris == get_uris(fnItem.login)
            ul   == UrlLines(body_lines(fnItem))
        IN  /\ Len(ul) = Len(uris)
            /\ \A i \in 1..Len(uris) :
                 /\ ul[i].label = IF Len(uris) = 1 THEN "URL" ELSE UrlLabel(i)
                 /\ uris[i].uri # Null
                 /\ ul[i].text = uris[i].uri.some

\* C5 (amended): the URL lines of a login body are, in input order, one line
\* for every URI whose value is not null, labelled URL when the list has
\* exactly one URI and URL i (i the position in the list, from 1) otherwise;
\* a URI whose value is null has no line and the others keep their numbers.
C5_UrlLines ==
    FormattedLogin =>
        LET uris == get_uris(fnItem.login)
            ul   == UrlLines(body_lines(fnItem))
            set  == Ascending({ i \in 1..Len(uris) : uris[i].uri # Null })
        IN  /\ Len(ul) = Len(set)
            /\ \A n \in 1..Len(set) :
                 /\ ul[n].label =
                      IF Len(uris) = 1 THEN "URL" ELSE UrlLabel(set[n])
                 /\ ul[n].text = uris[set[n]].uri.some

\* C5 witness: a login with three URIs, the second null, has been formatted.
C5_Witness ==
    /\ FormattedLogin
    /\ get_uris(fnItem.login)
         = <<[uri |-> Some("h2")], [uri |-> Null], [uri |-> Some("h1")]>>
    /\ UrlLines(body_lines(fnItem))
         = <<[label |-> "URL 1", text |-> "h2"],
             [label |-> "URL 3", text |-> "h1"]>>

\* every labelled field of an item, with the value the source record gives
\* it; the card expiry is null when both of its parts are
LabelledFields(item) ==
    LET at(obj, k) == IF k \in DOMAIN obj THEN obj[k] ELSE Null
        login == item.login
        card  == item.card
        uris  == get_uris(login)
        fs    == get_fields(item)
        as    == get_attachments(item)
    IN  {<<"Name", item.name>>, <<"Notes", item.notes>>}
        \cup (IF item.type # 1 THEN {} ELSE
                {<<"Username", login.username>>,
                 <<"Password", login.password>>, <<"TOTP", login.totp>>}
                \cup { <<IF Len(uris) = 1 THEN "URL" ELSE UrlLabel(i),
                         uris[i].uri>> : i \in 1..Len(uris) })
        \cup (IF item.type # 3 THEN {} ELSE
                {<<"Card Holder Name", card.cardholderName>>,
                 <<"Card Brand", card.brand>>,
                 <<"Card Number", card.number>>,
                 <<"Card Security Code", card.code>>})
        \cup (IF item.type # 4 THEN {} ELSE
                { <<IdentityFields[i][1], item.identity[IdentityFields[i][2]]>> :
                    i \in 1..Len(IdentityFields) })
        \cup { <<"[Custom Field " \o ToString(i) \o "] " \o Fmt(fs[i].name),
                 fs[i].value>> : i \in 1..Len(fs) }
        \cup UNION { { <<"Attachment " \o ToString(i - 1) \o " File Name",
                         as[i].fileName>>,
                       <<"Attachment " \o ToString(i - 1) \o " File Size",
                         as[i].sizeName>>,
                       <<"Attachment " \o ToString(i - 1) \o " URL",
                         as[i].url>> } : i \in 1..Len(as) }

\* the expiry of a card, null when month and year both are
ExpiryField(item) ==
    IF item.type # 3 THEN {}
    ELSE {<<"Card Expire MM/YYYY",
            IF item.card.expMonth = Null /\ item.card.expYear = Null
            THEN Null ELSE Some("set")>>}

\* format has returned a body
Formatted == fnPc = "input" /\ fnBody.ok

\* C4: a field whose value is null has no line in the body, the card expiry
\* built from expMonth and expYear included.
C4_NullFieldsOmitted ==
    Formatted =>
        \A f \in LabelledFields(fnItem) \cup ExpiryField(fnItem) :
            f[2] = Null => f[1] \notin Labels(body_lines(fnItem))

\* what holds of the code: every null field but the card expiry is omitted
C4_NullFieldsOmittedButExpiry ==
    Formatted =>
        \A f \in LabelledFields(fnItem) :
            f[2] = Null => f[1] \notin Labels(body_lines(fnItem))

\* the item main is at is of a type it does not know
AtUnknownType ==
    /\ pc \in {"item", "failed"}
    /\ bw_items[idx].type \notin KnownTypes

ItemOps(l) == SelectSeq(l, LAMBDA e : e.cmd \in {"exists", "remove", "insert"})
Count(l, c) == Len(SelectSeq(l, LAMBDA e : e.cmd = c))

\* C6: on an item whose type code is outside 1..4 passname and format both
\* raise the unrecognized-type error and return nothing; main fails on such an
\* item before any exists check, remove or insert made for it, and never
\* goes past it.
C6_UnknownTypeFails ==
    /\ (fnPc = "input" /\ "type" \in DOMAIN fnItem
          /\ fnItem.type \notin KnownTypes) =>
         /\ (fnName # NotCalled /\ Nameable(fnItem))
               => fnName = Raise(UnknownType)
         /\ fnBody # NotCalled => fnBody = Raise(UnknownType)
    /\ (pc \notin {"idle", "unlock", "sync", "list", "snapshot"}) =>
         \A i \in 1..Len(bw_items) :
            bw_items[i].type \notin KnownTypes =>
               /\ idx <= i
               /\ idx = i => pc \in {"item", "failed"}
    /\ (pc = "failed" /\ AtUnknownType) =>
         /\ name = Raise(UnknownType)
         /\ Count(log, "exists") = idx - 1
         /\ Count(log, "insert") = idx - 1
         /\ log[Len(log)].cmd \in {"snapshot", "insert"}
         /\ \A f \in DOMAIN dir \cup DOMAIN dir0 :
              (\A j \in 1..(idx - 1) : f # get_file_path(passname(bw_items[j]).val))
                 => f \in DOMAIN dir /\ f \in DOMAIN dir0 /\ dir[f] = dir0[f]

\* C6 witness: main has failed on an item of unknown type that follows an
\* item it has written.
C6_Witness ==
    /\ pc = "failed" /\ AtUnknownType
    /\ idx = 2
    /\ Count(log, "insert") = 1

(***************************************************************************)
(* Properties of a run of main.                                            *)
(***************************************************************************)
NameAt(i) == passname(bw_items[i]).val
BodyAt(i) == format(bw_items[i]).val
PathOf(n) == [stem |-> n, ext |-> ".gpg"]

\* the names of the entries a directory holds
EntryNames(d) == { f.stem : f \in { g \in DOMAIN d : g.ext = ".gpg" } }

\* the file is in both directories with one content, or in neither
Same(d1, d2, f) ==
    /\ f \in DOMAIN d1 <=> f \in DOMAIN d2
    /\ f \in DOMAIN d1 => d1[f] = d2[f]

Max(S) == CHOOSE m \in S : \A x \in S : x <= m

\* the positions before k of the items whose canonical name is n
Before(k, n) ==
    { i \in 1..(k - 1) : passname(bw_items[i]).ok /\ NameAt(i) = n }

DistinctNames ==
    \A i, j \in 1..Len(bw_items) : i # j => NameAt(i) # NameAt(j)

NameOfItemA == <<"a", "b", "-", "l", "o", "g", "i", "n", "-", "a", "1", "a", "1">>
NameOfItemN == <<"b", "-", "a", "-", "n", "o", "t", "e", "-", "1", "a">>
BodyOfItemA == "Name: Ab\nUsername: u\nPassword: p\nTOTP: t\nURL: h1\n"
BodyOfItemN == "Name: b_A\nNotes: n\n"

\* C1: after a completed run on items with pairwise distinct canonical names
\* the destination holds, for every item, the entry passname(item) with the
\* body format(item), which ends in a newline; from an empty store the entry
\* names are exactly the canonical names and no orphan is reported.
C1_EveryItemWritten ==
    (pc = "done" /\ DistinctNames) =>
        /\ \A i \in 1..Len(bw_items) :
             /\ PathOf(NameAt(i)) \in DOMAIN dir
             /\ dir[PathOf(NameAt(i))] = BodyAt(i)
             /\ bw_items[i] = ItemA =>
                  NameAt(i) = NameOfItemA /\ dir[PathOf(NameOfItemA)] = BodyOfItemA
             /\ bw_items[i] = ItemN =>
                  NameAt(i) = NameOfItemN /\ dir[PathOf(NameOfItemN)] = BodyOfItemN
        /\ EntryNames(dir0) = {} =>
             /\ EntryNames(dir) = { NameAt(i) : i \in 1..Len(bw_items) }
             /\ ignored_pass_entries = {}
             /\ ~warned

\* C1 witness: a login and a note have been written into an empty store.
C1_Witness ==
    /\ pc = "done" /\ run = 1
    /\ bw_items = <<ItemA, ItemN>>
    /\ EntryNames(dir0) = {}
    /\ EntryNames(dir) = {NameOfItemA, NameOfItemN}

\* C2: the orphans a completed run reports are exactly the names of the
\* pre-run snapshot that are the canonical name of no source item, each still
\* there with its content; and at no point of a run is a file changed whose
\* name is not the canonical name of a source item.
C2_OrphansReportedAndKept ==
    /\ pc = "done" =>
         /\ ignored_pass_entries =
              { n \in EntryNames(dir0) :
                  \A i \in 1..Len(bw_items) : NameAt(i) # n }
         /\ warned <=> ignored_pass_entries # {}
         /\ \A n \in ignored_pass_entries :
              PathOf(n) \in DOMAIN dir /\ dir[PathOf(n)] = dir0[PathOf(n)]
    /\ pc # "idle" =>
         \A f \in DOMAIN dir \cup DOMAIN dir0 :
            (\A i \in 1..Len(bw_items) :
                passname(bw_items[i]).ok => PathOf(NameAt(i)) # f)
               => Same(dir, dir0, f)

\* C2 witness: a run that replaced an entry has reported an orphan.
C2_Witness ==
    /\ pc = "done"
    /\ ignored_pass_entries = {OrphanName}
    /\ warned
    /\ Count(log, "remove") > 0
    /\ dir[PathOf(OrphanName)] = "old: old\n"

\* the number of items the run has written
Written == IF pc = "done" THEN Len(bw_items) ELSE idx - 1

\* C3: a second run on the same source list leaves the names and bodies the
\* first run left; in it every item's entry is found, removed and inserted
\* anew, and holds a formatted body and nothing of what was there.
C3_SecondRunIdempotent ==
    (run = 2 /\ pc \in {"done", "failed"}) =>
        /\ EntryNames(dir) = EntryNames(dirRun1)
        /\ dir = dirRun1
        /\ Len(ItemOps(log)) = 3 * Written
        /\ \A i \in 1..Written :
             /\ ItemOps(log)[3 * i - 2] = Cmd("exists", NameAt(i))
             /\ ItemOps(log)[3 * i - 1] = Cmd("remove", NameAt(i))
             /\ ItemOps(log)[3 * i] = Cmd("insert", NameAt(i))
             /\ dir[PathOf(NameAt(i))] =
                  BodyAt(Max(Before(Written + 1, NameAt(i))))

\* C3 witness: the second run over two items has completed, on a store whose
\* first run had replaced an older entry.
C3_Witness ==
    /\ run = 2 /\ pc = "done"
    /\ Len(bw_items) >= 2
    /\ PathOf(NameAt(1)) \in DOMAIN dir
    /\ dir[PathOf(NameAt(1))] # "old: ab-login-a1a1\n"
    /\ Count(log, "remove") = Len(bw_items)

\* C8: the commands and file operations of a run come in the order unlock
\* (repeated while it prints nothing), sync, list, snapshot, then per item in
\* source-list order exists, remove if it exists, insert, and the report
\* last; sync and list carry the token unlock returned, and the snapshot is
\* the directory as it was before the first remove or insert.
C8_OrderOfSteps ==
    pc # "idle" =>
    /\ \A i \in 1..Len(log) :
         /\ log[i].cmd = "unlock" =>
              \A j \in 1..(i - 1) : log[j].cmd = "unlock" /\ log[j].arg = ""
         /\ log[i].cmd = "sync" =>
              /\ i > 1 /\ log[i - 1].cmd = "unlock"
              /\ log[i - 1].arg # "" /\ log[i].arg = log[i - 1].arg
         /\ log[i].cmd = "list" =>
              /\ i > 1 /\ log[i - 1].cmd = "sync"
              /\ log[i].arg = log[i - 1].arg
         /\ log[i].cmd = "snapshot" => i > 1 /\ log[i - 1].cmd = "list"
         /\ log[i].cmd = "exists" =>
              i > 1 /\ log[i - 1].cmd \in {"snapshot", "insert"}
         /\ log[i].cmd = "remove" =>
              /\ i > 1 /\ log[i - 1].cmd = "exists"
              /\ log[i].arg = log[i - 1].arg
              /\ PathOf(log[i].arg) \in DOMAIN dir0
                   \/ \E j \in 1..(i - 1) :
                        log[j].cmd = "insert" /\ log[j].arg = log[i].arg
         /\ log[i].cmd = "insert" =>
              /\ i > 1 /\ log[i - 1].cmd \in {"exists", "remove"}
              /\ log[i].arg = log[i - 1].arg
    /\ pc \notin {"unlock"} => session \in Tokens
    /\ \A i \in 1..Len(log) :
         log[i].cmd \in {"sync", "list"} => log[i].arg = session
    /\ LET ex == SelectSeq(log, LAMBDA e : e.cmd = "exists")
       IN  /\ Len(ex) <= Len(bw_items)
           /\ \A i \in 1..Len(ex) : ex[i].arg = NameAt(i)
    /\ Count(log, "snapshot") = 1 => existing_pass_entries = EntryNames(dir0)
    /\ Count(log, "snapshot") = 0 => dir = dir0
    /\ pc = "done" =>
         /\ Count(log, "insert") = Len(bw_items)
         /\ Count(log, "snapshot") = 1

\* C8 witness: a run whose first unlock printed nothing has completed after
\* removing and inserting entries for two items.
C8_Witness ==
    /\ pc = "done"
    /\ attempts >= 2
    /\ Len(bw_items) = 2
    /\ Count(log, "remove") = 2

\* the run has stopped in the formatting of the item at position idx
Failed == pc = "failed"

\* C9 (as claimed): when the item at position k fails, every earlier item's
\* entry holds that item's body, and the entries under the names of item k
\* and of the later items are as they were before the run.
C9_EarlierWrittenLaterUntouched ==
    Failed =>
        /\ ignored_pass_entries = {} /\ ~warned
        /\ \A i \in 1..(idx - 1) :
             PathOf(NameAt(i)) \in DOMAIN dir /\ dir[PathOf(NameAt(i))] = BodyAt(i)
        /\ \A i \in idx..Len(bw_items) :
             (passname(bw_items[i]).ok /\ PathOf(NameAt(i)) \in DOMAIN dir0) =>
                /\ PathOf(NameAt(i)) \in DOMAIN dir
                /\ dir[PathOf(NameAt(i))] = dir0[PathOf(NameAt(i))]

\* C9 (amended): when the item at position k fails the run stops with no
\* rollback and no orphan report; every name of an item before k holds the
\* body of the last item before k with that name, and every file that is not
\* the entry of an item before k is as it was before the run; name and body
\* are computed before the removal, so no entry is left deleted.
C9_PartialRun ==
    /\ Failed =>
         /\ ignored_pass_entries = {} /\ ~warned
         /\ ~name.ok \/ ~content.ok
         /\ DOMAIN dir0 \subseteq DOMAIN dir
         /\ \A f \in DOMAIN dir \cup DOMAIN dir0
                    \cup { PathOf(NameAt(i)) :
                             i \in { j \in 1..Len(bw_items) :
                                       passname(bw_items[j]).ok } } :
              IF Before(idx, f.stem) # {} /\ f.ext = ".gpg"
              THEN f \in DOMAIN dir /\ dir[f] = BodyAt(Max(Before(idx, f.stem)))
              ELSE Same(dir, dir0, f)
    /\ pc \in {"exists", "remove", "insert"} =>
         /\ name = passname(bw_items[idx]) /\ name.ok
         /\ content = format(bw_items[idx]) /\ content.ok

\* C9 witness: the third item has failed after two items with one name were
\* written, the second over the first.
C9_Witness ==
    /\ Failed /\ idx = 3
    /\ NameAt(1) = NameAt(2) /\ BodyAt(1) # BodyAt(2)
    /\ dir[PathOf(NameAt(2))] = BodyAt(2)
    /\ PathOf(OrphanName) \in DOMAIN dir

\* two items of the source list have one canonical name
Collide(i, j) ==
    /\ i < j
    /\ passname(bw_items[i]).ok /\ passname(bw_items[j]).ok
    /\ NameAt(i) = NameAt(j)

\* C10: items with one canonical name do not stop the run; the later one
\* removes the entry written for the earlier one and inserts its own, so a
\* completed run leaves under that name the body of the last item with the
\* name, and the name is not reported as an orphan.
C10_LastCollidingItemWins ==
    /\ Failed => ~passname(bw_items[idx]).ok \/ ~format(bw_items[idx]).ok
    /\ pc = "done" =>
         \A i, j \in 1..Len(bw_items) :
            Collide(i, j) =>
               /\ dir[PathOf(NameAt(j))] =
                    BodyAt(Max(Before(Len(bw_items) + 1, NameAt(j))))
               /\ NameAt(j) \notin ignored_pass_entries
               /\ ItemOps(log)[Len(ItemOps(log))].cmd = "insert"
               /\ \E a, b \in 1..Len(log) :
                    /\ a < b
                    /\ log[a].cmd = "insert" /\ log[a].arg = NameAt(i)
                    /\ log[b].cmd = "remove" /\ log[b].arg = NameAt(j)
                    /\ Count(SubSeq(log, 1, a), "insert") = i
                    /\ Count(SubSeq(log, 1, b), "exists") = j

\* C10 witness: two logins with one name and different bodies were written
\* over a pre-existing entry; the second one's body is what is left.
C10_Witness ==
    /\ pc = "done"
    /\ bw_items = <<ItemA, ItemA2>>
    /\ PathOf(NameOfItemA) \in DOMAIN dir0
    /\ dir[PathOf(NameOfItemA)] = "Name: Ab\nUsername: u\nTOTP: t\n"
    /\ ignored_pass_entries = {}

=============================================================================
